---- MODULE Spec2Model ----
(***************************************************************************)
(* Signal outcome resolution of telegram_forex_bot: the live monitoring    *)
(* loop (mt_bot/trade_monitor.py over mt_bot/mt5_client.py), the offline   *)
(* bar walk (mt_bot/evaluator.py), the message parser (shared/parser.py),  *)
(* the order execution (mt_bot/trade_executioner.py), the order placement  *)
(* of MT5Client, the Telegram listener (telegram_listener.py) and the      *)
(* event loop that joins them (app/runner.py).                             *)
(*                                                                         *)
(* Prices are integers: one unit is 1.0 of the instrument's price.  Times  *)
(* are integers.  Python's None is NoneV; a value a call returns is        *)
(* wrapped as [kind |-> "value", val |-> v], a call that returns None is   *)
(* [kind |-> "none"] and a call that raises is [kind |-> "raise"].         *)
(***************************************************************************)
EXTENDS Integers, Sequences, FiniteSets, TLC

VARIABLES
    trade,          \* the TradeHandle monitor_trade was started with
    pc,             \* where the monitoring task is: poll, sleep, done, failed
    rows,           \* TradeMonitor.rows
    file,           \* var/signal_results.json as save_results_to_json leaves it
    sheet,          \* the rows inserted into the Google worksheet, newest first
    posOpen,        \* broker: the position of trade.ticket is open
    deals,          \* broker: the history deals of that position, oldest first
    liveOrders,     \* broker: the tickets of the live pending orders
    linkUp,         \* broker: the terminal link is stable (no call returns None)
    polls,          \* loop iterations so far (saturates at MaxPolls)
    emitted,        \* the rows this task appended, in order
    closing_deal,   \* the deal the row was built from
    calls,          \* the collaborator calls of the latest iteration, in order
    raised,         \* the call whose exception ended the task
    seenClosed,     \* some poll found no open position
    ev,             \* an offline evaluation: what evaluate_signal is given and returns
    resolver,       \* an entry decision: band, quote, what decide_entry and _decide_entry return
    parsed,         \* a message text and what SignalParser.parse returns for it
    signal_queue,   \* runner.main: the queue of parsed signals
    monitor_queue,  \* runner.main: the queue of TradeHandles
    tasks,          \* the monitoring tasks monitor_loop has created, oldest first
    book,           \* broker: per ticket, whether the position is open and its deals
    handled,        \* the execute_trade calls of trader_loop so far, with their results
    arrived,        \* the signals put on signal_queue so far, in order
    dispatched,     \* the TradeHandles put on monitor_queue so far, in order
    executed,       \* the latest execute_trade call: what it found, sent and returned
    channel,        \* Telegram: the ids of the messages in the chat history, oldest first
    upcoming,       \* Telegram: the ids of the messages still to be posted, in order
    last_message_id, \* TelegramListener.last_message_id, as in its file
    examined,       \* the ids of the messages poll_channel gave to the parser, in order
    placing         \* an order placement: signal, offset, the request built, what was sent

monitorVars == <<trade, pc, rows, file, sheet, posOpen, deals, liveOrders, linkUp,
                 polls, emitted, closing_deal, calls, raised, seenClosed>>

pipelineVars == <<signal_queue, monitor_queue, tasks, book, handled, arrived, dispatched,
                  executed>>

listenerVars == <<channel, upcoming, last_message_id, examined>>

vars == <<monitorVars, ev, resolver, parsed, pipelineVars, listenerVars, placing>>

(***************************************************************************)
(* Bounds of the model.                                                    *)
(***************************************************************************)
MaxPolls == 1
MaxSiblings == 2
MaxPrice == 5
MaxBars == 2
MaxTicks == 2
MaxNumber == 3
MaxTps == 2
MaxMessages == 1
MaxHandles == 2
MaxPosts == 3

NoneV == "None"

Prices == 1..MaxPrice

Abs(x) == IF x < 0 THEN -x ELSE x

Min(a, b) == IF a < b THEN a ELSE b

Range(s) == {s[i] : i \in DOMAIN s}

Last(s) == s[Len(s)]

(***************************************************************************)
(* models/signal.py, models/trade_handle.py                                *)
(***************************************************************************)
Signals ==
    { [message_id |-> 1, created_at |-> 1, symbol |-> "XAUUSD.s", side |-> "BUY",
       entry_low |-> 2, entry_high |-> 3, tp |-> 5, sl |-> 1, tp_index |-> 1],
      [message_id |-> 2, created_at |-> 1, symbol |-> "XAUUSD.s", side |-> "SELL",
       entry_low |-> 3, entry_high |-> 4, tp |-> 2, sl |-> 5, tp_index |-> 1] }

PositionTicket == 100

SiblingTickets == 201..(200 + MaxSiblings)

\* The pending-order ticket lists a handle may carry: <<>>, <<201>>, <<201, 202>>, ...
SiblingLists == { [i \in 1..n |-> 200 + i] : n \in 0..MaxSiblings }

TradeHandles ==
    { [ticket |-> PositionTicket,
       signal |-> s,
       signal_entry_price |-> s.entry_low,
       executed_price |-> s.entry_low,
       opened_at |-> s.created_at,
       market_price_at_signal |-> s.entry_low,
       pending_order_tickets |-> p,
       is_parent |-> FALSE] : s \in Signals, p \in SiblingLists }

\* getattr(obj, name, default) on an object given as a record of its attributes
getattr(obj, name, default) == IF name \in DOMAIN obj THEN obj[name] ELSE default

(***************************************************************************)
(* Responses of the MetaTrader5 module and of the worksheet.               *)
(***************************************************************************)
Value(v) == [kind |-> "value", val |-> v]
NoneResp == [kind |-> "none"]
RaiseResp == [kind |-> "raise"]

\* How a call may answer: with the link stable it returns its value; otherwise it
\* may also return None (MetaTrader5's failure convention).
ReturnKinds == IF linkUp THEN {"value"} ELSE {"value", "none"}
ThrowKinds == {"value", "none", "raise"}

Respond(kind, v) ==
    IF kind = "value" THEN Value(v)
    ELSE IF kind = "none" THEN NoneResp ELSE RaiseResp

\* mt5.positions_get(ticket=t)
positions_get(t) == IF t = PositionTicket /\ posOpen THEN <<[ticket |-> t]>> ELSE <<>>

\* mt5.history_deals_get(position=t)
history_deals_get(t) == IF t = PositionTicket THEN deals ELSE <<>>

\* mt5.orders_get(ticket=t)
orders_get(t) == IF t \in liveOrders THEN <<[ticket |-> t]>> ELSE <<>>

\* mt5.order_send({action: TRADE_ACTION_REMOVE, order: t}): the result it returns
order_send_remove(t) == [retcode |-> IF t \in liveOrders THEN "DONE" ELSE "INVALID", order |-> t]

(***************************************************************************)
(* mt_bot/mt5_client.py: the wrappers monitor_trade calls.                 *)
(***************************************************************************)
\* get_positions: a None from positions_get is logged and becomes an empty tuple
get_positions(resp) == IF resp.kind = "none" THEN Value(<<>>) ELSE resp

\* get_history_deals: a None from history_deals_get becomes an empty tuple
get_history_deals(resp) == IF resp.kind = "none" THEN Value(<<>>) ELSE resp

\* get_orders: a None from orders_get is logged and becomes an empty tuple
get_orders(resp) == IF resp.kind = "none" THEN Value(<<>>) ELSE resp

\* cancel_pending_order: a None from order_send raises RuntimeError
cancel_pending_order(resp) == IF resp.kind = "none" THEN RaiseResp ELSE resp

\* Python's truth value of a tuple
Truthy(seq) == Len(seq) > 0

(***************************************************************************)
(* mt_bot/trade_monitor.py: classification and the result row.             *)
(***************************************************************************)
TOLERANCE == 1

\* (mutant) the tolerance compared strictly
get_result_of_signal_Strict(signal, close_price) ==
    LET diff == Abs(close_price - signal.tp)
    IN IF diff < TOLERANCE THEN "TP" ELSE "SL"

get_result_of_signal(signal, close_price) ==
    LET diff == Abs(close_price - signal.tp)
    IN IF diff <= TOLERANCE THEN "TP" ELSE "SL"

\* A datetime, and the text str() or isoformat() makes of one
Dt(t) == [dt |-> t]
Str(v) == IF "dt" \in DOMAIN v THEN [str |-> v.dt] ELSE v

build_row_from_deal(tr, deal) ==
    LET signal == tr.signal
        hit_time == Dt(deal.time)
        close_price == deal.price
        result == get_result_of_signal(signal, close_price)
    IN [message_id |-> signal.message_id,
        symbol |-> signal.symbol,
        direction |-> signal.side,
        entry_price_signal |-> tr.signal_entry_price,
        take_profit |-> signal.tp,
        stop_loss |-> signal.sl,
        market_price_at_signal |-> tr.market_price_at_signal,
        open_timestamp |-> Dt(signal.created_at),
        close_timestamp |-> hit_time,
        result |-> result]

(***************************************************************************)
(* storage/file_manager.py: the results file is written one JSON document  *)
(* per line and read back as one JSON document.                            *)
(***************************************************************************)
NoneRow == [is_none |-> TRUE]

IsNoneRow(r) == "is_none" \in DOMAIN r

\* json.dumps(r, default=str): None is null, a datetime becomes its text
json_dumps(r) ==
    IF IsNoneRow(r) THEN r
    ELSE [r EXCEPT !.open_timestamp = Str(@), !.close_timestamp = Str(@)]

AbsentFile == [exists |-> FALSE, lines |-> <<>>]

save_results_to_json(rs) == [exists |-> TRUE, lines |-> [i \in DOMAIN rs |-> json_dumps(rs[i])]]

\* load_json: None when the file is absent or json.loads fails; json.loads reads
\* exactly one document, so it fails on an empty file and on two lines or more
load_json(f) ==
    IF ~f.exists THEN NoneRow
    ELSE IF Len(f.lines) = 1 THEN f.lines[1] ELSE NoneRow

\* _load_existing_rows: what is not a list is wrapped into a one-element list
load_existing_rows(f) == <<load_json(f)>>

\* _flush_to_disk's worksheet cells: the timestamps as isoformat() text
sheet_cells(r) == [r EXCEPT !.open_timestamp = Str(@), !.close_timestamp = Str(@)]

(***************************************************************************)
(* mt_bot/trade_monitor.py, monitor_trade: one iteration of the loop, from *)
(* get_positions to the sleep or the break.  No await lies between, so the *)
(* iteration is one step of the task.  kp, kh, ko, kc, ks say how          *)
(* positions_get, history_deals_get, orders_get, order_send and the        *)
(* worksheet's insert_row answer.  calls logs each collaborator call of    *)
(* the iteration with its argument and what came back.                     *)
(***************************************************************************)
Got(resp) ==
    IF resp.kind = "raise" THEN "raise"
    ELSE IF resp.val = <<>> THEN "empty" ELSE "some"

Call(name, arg, got) == [call |-> name, arg |-> arg, got |-> got]

Unchanged ==
    [pc |-> pc, rows |-> rows, file |-> file, sheet |-> sheet, liveOrders |-> liveOrders,
     emitted |-> emitted, closing_deal |-> closing_deal, calls |-> calls,
     raised |-> raised, seenClosed |-> seenClosed]

\* await asyncio.sleep(10); continue
Sleeps(st, made) == [st EXCEPT !.pc = "sleep", !.calls = made]

\* an exception leaves monitor_trade: the task ends with it
Aborts(st, made) == [st EXCEPT !.pc = "failed", !.calls = made, !.raised = Last(made).call]

\* (mutant) the break is missing: the loop goes on to its next iteration
Finishes_NoBreak(st, made) == [st EXCEPT !.pc = "poll", !.calls = made]

\* the break at the end of the iteration
Finishes(st, made) == [st EXCEPT !.pc = "done", !.calls = made]

\* lines 88-106: cancel the pending order if the broker still lists it; whatever
\* cancel_pending_order raises is logged and dropped
CancelIfLive(st, made, pending_ticket, orders, kc) ==
    IF Truthy(orders)
    THEN LET cancel_result == cancel_pending_order(Respond(kc, order_send_remove(pending_ticket)))
         IN IF cancel_result.kind = "raise"
            THEN Finishes(st, Append(made, Call("cancel_pending_order", pending_ticket, "raise")))
            ELSE Finishes([st EXCEPT !.liveOrders = @ \ {pending_ticket}],
                          Append(made, Call("cancel_pending_order", pending_ticket, "ok")))
    ELSE Finishes(st, made)

\* (mutant) the sibling is read from pending_order_tickets and looked up whatever
\* the result of the row
CleanupAfter_AnyResult(st, made, row, ko, kc) ==
    IF Len(trade.pending_order_tickets) > 0
    THEN LET pending_ticket == trade.pending_order_tickets[1]
             orders == get_orders(Respond(ko, orders_get(pending_ticket)))
             made2 == Append(made, Call("get_orders", pending_ticket, Got(orders)))
         IN IF orders.kind = "raise"
            THEN Aborts(st, made2)
            ELSE CancelIfLive(st, made2, pending_ticket, orders.val, kc)
    ELSE Finishes(st, made)

\* lines 72-86: the pending order of the handle is looked up after a TP
CleanupAfter(st, made, row, ko, kc) ==
    LET pending_ticket == getattr(trade, "pending_order_ticket", NoneV)
    IN IF row.result = "TP" /\ pending_ticket /= NoneV
       THEN LET orders == get_orders(Respond(ko, orders_get(pending_ticket)))
                made2 == Append(made, Call("get_orders", pending_ticket, Got(orders)))
            IN IF orders.kind = "raise"
               THEN Aborts(st, made2)
               ELSE CancelIfLive(st, made2, pending_ticket, orders.val, kc)
       ELSE Finishes(st, made)

\* lines 67-70 and _flush_to_disk: the row is built from history[-1] (IndexError on
\* an empty history), appended, the file rewritten and the row inserted into the
\* worksheet; insert_row's exception is not caught
Resolves(st, made, history, ko, kc, ks) ==
    IF Len(history) = 0
    THEN Aborts(st, Append(made, Call("history[-1]", NoneV, "raise")))
    ELSE LET deal == Last(history)
             row == build_row_from_deal(trade, deal)
             rows2 == Append(st.rows, row)
             st2 == [st EXCEPT !.rows = rows2,
                               !.emitted = Append(@, row),
                               !.closing_deal = deal,
                               !.file = save_results_to_json(rows2)]
             made2 == made \o <<Call("append", NoneV, "ok"),
                                Call("save_results_to_json", NoneV, "ok")>>
         IN IF ks = "raise"
            THEN Aborts(st2, Append(made2, Call("insert_row", NoneV, "raise")))
            ELSE CleanupAfter([st2 EXCEPT !.sheet = <<sheet_cells(Last(rows2))>> \o @],
                              Append(made2, Call("insert_row", NoneV, "ok")), row, ko, kc)

\* (mutant) the test of line 58 negated
PositionStillOpen_Negated(positions) == ~Truthy(positions)

\* line 58: if positions
PositionStillOpen(positions) == Truthy(positions)

\* (mutant) the test of line 63 inverted: waits while there are deals
HistoryMissing_Inverted(history) == Truthy(history)

\* (mutant) the test of line 63 left out: history[-1] is read at once
HistoryMissing_Never(history) == FALSE

\* line 63: if not history
HistoryMissing(history) == ~Truthy(history)

\* lines 62-65
AfterClosed(st, made, history, ko, kc, ks) ==
    LET made2 == Append(made, Call("get_history_deals", trade.ticket, Got(history)))
    IN IF history.kind = "raise"
       THEN Aborts(st, made2)
       ELSE IF HistoryMissing(history.val)
            THEN Sleeps(st, made2)
            ELSE Resolves(st, made2, history.val, ko, kc, ks)

\* lines 56-60
MonitorIteration(kp, kh, ko, kc, ks) ==
    LET ticket == trade.ticket
        positions == get_positions(Respond(kp, positions_get(ticket)))
        made == <<Call("get_positions", ticket, Got(positions))>>
        st == [Unchanged EXCEPT !.seenClosed = @ \/ Got(positions) = "empty"]
    IN IF positions.kind = "raise"
       THEN Aborts(st, made)
       ELSE IF PositionStillOpen(positions.val)
            THEN Sleeps(st, made)
            ELSE AfterClosed(st, made,
                             get_history_deals(Respond(kh, history_deals_get(ticket))),
                             ko, kc, ks)

Apply(st) ==
    /\ pc' = st.pc
    /\ rows' = st.rows
    /\ file' = st.file
    /\ sheet' = st.sheet
    /\ liveOrders' = st.liveOrders
    /\ emitted' = st.emitted
    /\ closing_deal' = st.closing_deal
    /\ calls' = st.calls
    /\ raised' = st.raised
    /\ seenClosed' = st.seenClosed
    /\ polls' = Min(polls + 1, MaxPolls)
    /\ UNCHANGED <<trade, posOpen, deals, linkUp, ev, resolver, parsed, pipelineVars,
                   listenerVars, placing>>

\* One iteration against a broker whose calls return (a value, or None on failure)
Poll ==
    /\ pc = "poll"
    /\ \E kp \in ReturnKinds, kh \in ReturnKinds, ko \in ReturnKinds, kc \in ReturnKinds,
          ks \in {"value", "raise"} :
          Apply(MonitorIteration(kp, kh, ko, kc, ks))

\* One iteration against a broker library whose calls may also raise
PollThrows ==
    /\ pc = "poll"
    /\ \E kp \in ThrowKinds, kh \in ThrowKinds, ko \in ThrowKinds, kc \in ThrowKinds,
          ks \in {"value", "raise"} :
          Apply(MonitorIteration(kp, kh, ko, kc, ks))

\* asyncio.sleep(10) is over
Wake ==
    /\ pc = "sleep"
    /\ pc' = "poll"
    /\ UNCHANGED <<trade, rows, file, sheet, posOpen, deals, liveOrders, linkUp, polls,
                   emitted, closing_deal, calls, raised, seenClosed, ev, resolver, parsed,
                   pipelineVars, listenerVars, placing>>

(***************************************************************************)
(* The broker, as the calls above see it, for as long as the task runs.    *)
(***************************************************************************)
Terminated == pc \in {"done", "failed"}

NoDeal == [entry |-> "NONE", price |-> 0, time |-> 0]

HasDeal(kind) == \E i \in DOMAIN deals : deals[i].entry = kind

\* the position is closed (TP, SL or by hand)
BrokerClosesPosition ==
    /\ ~Terminated
    /\ posOpen
    /\ posOpen' = FALSE
    /\ UNCHANGED <<trade, pc, rows, file, sheet, deals, liveOrders, linkUp, polls,
                   emitted, closing_deal, calls, raised, seenClosed, ev, resolver, parsed,
                   pipelineVars, listenerVars, placing>>

\* the deal that opened the position shows up in the history
BrokerRecordsEntryDeal ==
    /\ ~Terminated
    /\ deals = <<>>
    /\ deals' = <<[entry |-> "IN", price |-> trade.executed_price, time |-> 1]>>
    /\ UNCHANGED <<trade, pc, rows, file, sheet, posOpen, liveOrders, linkUp, polls,
                   emitted, closing_deal, calls, raised, seenClosed, ev, resolver, parsed,
                   pipelineVars, listenerVars, placing>>

\* the deal that closed the position shows up in the history
BrokerRecordsClosingDeal ==
    /\ ~Terminated
    /\ ~posOpen
    /\ ~HasDeal("OUT")
    /\ \E p \in Prices : deals' = Append(deals, [entry |-> "OUT", price |-> p, time |-> 2])
    /\ UNCHANGED <<trade, pc, rows, file, sheet, posOpen, liveOrders, linkUp, polls,
                   emitted, closing_deal, calls, raised, seenClosed, ev, resolver, parsed,
                   pipelineVars, listenerVars, placing>>

\* a pending order is filled, expires or is removed by hand
BrokerRemovesOrder ==
    /\ ~Terminated
    /\ \E t \in liveOrders : liveOrders' = liveOrders \ {t}
    /\ UNCHANGED <<trade, pc, rows, file, sheet, posOpen, deals, linkUp, polls,
                   emitted, closing_deal, calls, raised, seenClosed, ev, resolver, parsed,
                   pipelineVars, listenerVars, placing>>

\* the link to the terminal becomes unstable, or stable again
LinkChanges ==
    /\ ~Terminated
    /\ linkUp' = ~linkUp
    /\ UNCHANGED <<trade, pc, rows, file, sheet, posOpen, deals, liveOrders, polls,
                   emitted, closing_deal, calls, raised, seenClosed, ev, resolver, parsed,
                   pipelineVars, listenerVars, placing>>

Broker ==
    \/ BrokerClosesPosition
    \/ BrokerRecordsEntryDeal
    \/ BrokerRecordsClosingDeal
    \/ BrokerRemovesOrder
    \/ LinkChanges

(***************************************************************************)
(* The offline evaluator (mt_bot/evaluator.py).  An optional value is      *)
(* NoneOpt or Some(v).  A result of evaluate_signal is the dict of         *)
(* _make_result, or the exception that left the call.                      *)
(***************************************************************************)
NoneOpt == [is_none |-> TRUE]

Some(v) == [is_none |-> FALSE, val |-> v]

\* Python's truth value of a float | None
PriceTruthy(p) == ~p.is_none /\ p.val /= 0

NoResult == [kind |-> "none"]

Raises(exc, line) == [kind |-> "raise", exc |-> exc, line |-> line]

\* mt5.symbol_info_tick: no quote, or ask and bid with bid <= ask
TickShapes == { [ask |-> a, bid |-> b] : a \in Prices, b \in Prices }

Quotes == {NoneOpt} \cup { Some(q) : q \in { t \in TickShapes : t.bid \in {t.ask - 1, t.ask} } }

\* one M1 bar of copy_rates_range
BarShapes == { [high |-> h, low |-> l] : h \in Prices, l \in Prices }

WellFormedBars == { b \in BarShapes : b.low <= b.high }

\* bars of an evaluation window, oldest first, at most n; bar i opens at minute i
BarSeqs(n) ==
    UNION { { [i \in 1..k |-> [time |-> i, high |-> f[i].high, low |-> f[i].low]] :
              f \in [1..k -> WellFormedBars] } : k \in 0..n }

\* tick['time'] / 1000: the tick's time is taken to be in milliseconds
MsPerSecond == 1000

\* the ticks of one minute, oldest first, at most n; tick i is stamped second i
TickSeqs(n) ==
    UNION { { [i \in 1..k |-> [time |-> MsPerSecond * i, ask |-> f[i], bid |-> f[i]]] :
              f \in [1..k -> Prices] } : k \in 0..n }

\* the Signal the evaluator is handed: the dataclass fields it reads
EvalSignal(s) ==
    [message_id |-> s.message_id, created_at |-> s.created_at, symbol |-> s.symbol,
     side |-> s.side, entry_low |-> s.entry_low, entry_high |-> s.entry_high,
     tp |-> s.tp, sl |-> s.sl]

make_result(status, hit_time, entry_type, notes) ==
    [kind |-> "return", status |-> status, hit_time |-> hit_time,
     entry_type |-> entry_type, notes |-> notes]

Entry(type, price) == [type |-> type, price |-> price]

\* (mutant) the band edges compared with >= and <=
decide_entry_NonStrict(tick, side, entry_low, entry_high) ==
    IF tick.is_none THEN Entry("MARKET", NoneOpt)
    ELSE LET ask == tick.val.ask
             bid == tick.val.bid
         IN IF side = "BUY"
            THEN IF entry_low >= ask THEN Entry("BUY_STOP", Some(entry_low))
                 ELSE IF entry_high <= ask THEN Entry("BUY_LIMIT", Some(entry_high))
                 ELSE Entry("MARKET", Some(ask))
            ELSE IF entry_high <= bid THEN Entry("SELL_STOP", Some(entry_high))
                 ELSE IF entry_low >= bid THEN Entry("SELL_LIMIT", Some(entry_low))
                 ELSE Entry("MARKET", Some(bid))

\* Evaluator.decide_entry; tick is what mt5.symbol_info_tick returns
decide_entry(tick, side, entry_low, entry_high) ==
    IF tick.is_none THEN Entry("MARKET", NoneOpt)
    ELSE LET ask == tick.val.ask
             bid == tick.val.bid
         IN IF side = "BUY"
            THEN IF entry_low > ask THEN Entry("BUY_STOP", Some(entry_low))
                 ELSE IF entry_high < ask THEN Entry("BUY_LIMIT", Some(entry_high))
                 ELSE Entry("MARKET", Some(ask))
            ELSE IF entry_high < bid THEN Entry("SELL_STOP", Some(entry_high))
                 ELSE IF entry_low > bid THEN Entry("SELL_LIMIT", Some(entry_low))
                 ELSE Entry("MARKET", Some(bid))

\* MT5Client.get_ticks is not in mt5_client.py: the ticks of the bar's minute
get_ticks(ticks) == ticks

RECURSIVE ScanTicks(_, _, _, _, _)
ScanTicks(signal, ticks, i, bar_time, entry_type) ==
    IF i > Len(ticks)
    THEN make_result("SL", Some(bar_time), entry_type, "tie -> conservative SL")
    ELSE LET tick == ticks[i]
             price == IF signal.side = "BUY" THEN tick.ask ELSE tick.bid
             time_ == Some(tick.time \div MsPerSecond)
         IN IF signal.side = "BUY"
            THEN IF price <= signal.sl
                 THEN make_result("SL", time_, entry_type, "tie -> SL first (tick)")
                 ELSE IF price >= signal.tp
                 THEN make_result("TP", time_, entry_type, "tie -> TP first (tick)")
                 ELSE ScanTicks(signal, ticks, i + 1, bar_time, entry_type)
            ELSE IF price >= signal.sl
                 THEN make_result("SL", time_, entry_type, "tie -> SL first (tick)")
                 ELSE IF price <= signal.tp
                 THEN make_result("TP", time_, entry_type, "tie -> TP first (tick)")
                 ELSE ScanTicks(signal, ticks, i + 1, bar_time, entry_type)

resolve_tie(signal, bar_time, entry_type, ticks) ==
    ScanTicks(signal, get_ticks(ticks), 1, bar_time, entry_type)

evaluate_bar(signal, bar, in_trade, entry_type, ticks) ==
    LET bar_time == bar.time
        tp_hit == IF signal.side = "BUY" THEN bar.high >= signal.tp ELSE bar.low <= signal.tp
        sl_hit == IF signal.side = "BUY" THEN bar.low <= signal.sl ELSE bar.high >= signal.sl
    IN IF ~in_trade THEN NoResult
       ELSE IF tp_hit /\ sl_hit THEN resolve_tie(signal, bar_time, entry_type, ticks)
       ELSE IF tp_hit THEN make_result("TP", Some(bar_time), entry_type, "")
       ELSE IF sl_hit THEN make_result("SL", Some(bar_time), entry_type, "")
       ELSE NoResult

check_entry_trigger(signal, bar, entry_price) ==
    IF signal.side = "BUY" /\ bar.high >= entry_price THEN TRUE
    ELSE IF signal.side = "SELL" /\ bar.low <= entry_price THEN TRUE
    ELSE FALSE

\* the for loop of evaluate_signal from bar i on
RECURSIVE WalkBars(_, _, _, _, _, _)
WalkBars(signal, bars, i, in_trade, entry, ticks) ==
    IF i > Len(bars) THEN make_result(NoneV, NoneOpt, entry.type, "timeout")
    ELSE LET bar == bars[i]
             result == evaluate_bar(signal, bar, in_trade, entry.type, ticks)
         IN IF result.kind /= "none" THEN result
            ELSE IF ~in_trade /\ PriceTruthy(entry.price)
                 THEN WalkBars(signal, bars, i + 1,
                               check_entry_trigger(signal, bar, entry.price.val), entry, ticks)
                 ELSE WalkBars(signal, bars, i + 1, in_trade, entry, ticks)

\* evaluate_signal past the evaluation window: fetch the bars and walk them
walk_window(signal, entry, bars, ticks) ==
    IF Len(bars) = 0 THEN make_result(NoneV, NoneOpt, entry.type, "no bars")
    ELSE WalkBars(signal, bars, 1, entry.type = "MARKET", entry, ticks)

\* signal.created_atW is read of a Signal whose fields are those of EvalSignal
evaluate_signal(signal, symbol_known, tick, bars, ticks) ==
    IF ~symbol_known THEN Raises("RuntimeError", 52)
    ELSE LET entry == decide_entry(tick, signal.side, signal.entry_low, signal.entry_high)
         IN IF "created_atW" \notin DOMAIN signal THEN Raises("AttributeError", 55)
            ELSE walk_window(signal, entry, bars, ticks)

\* no evaluation is under way
EvIdle ==
    [signal |-> NoneOpt, symbol_known |-> TRUE, tick |-> NoneOpt, bars |-> <<>>,
     ticks |-> <<>>, out |-> NoResult, again |-> NoResult]

\* what an evaluation is run on: the signal and the broker's symbol, quote, bars
\* and the ticks of the minute of a bar that touches both levels
EvInput(s, k, q, b, t) ==
    [signal |-> EvalSignal(s), symbol_known |-> k, tick |-> q, bars |-> b,
     ticks |-> t, out |-> NoResult, again |-> NoResult]

\* some bar touches both the take-profit and the stop-loss of s
HasTieBar(s, b) ==
    \E i \in DOMAIN b :
        IF s.side = "BUY" THEN b[i].high >= s.tp /\ b[i].low <= s.sl
        ELSE b[i].low <= s.tp /\ b[i].high >= s.sl

\* res = evaluator.evaluate_signal(sig)
Evaluate ==
    /\ ev.out = NoResult
    /\ ev' = [ev EXCEPT !.out = evaluate_signal(ev.signal, ev.symbol_known, ev.tick,
                                                ev.bars, ev.ticks)]
    /\ UNCHANGED <<monitorVars, resolver, parsed, pipelineVars, listenerVars, placing>>

\* the same Evaluator is run on the same signal against the same broker data
EvaluateAgain ==
    /\ ev.out /= NoResult
    /\ ev.again = NoResult
    /\ ev' = [ev EXCEPT !.again = evaluate_signal(ev.signal, ev.symbol_known, ev.tick,
                                                  ev.bars, ev.ticks)]
    /\ UNCHANGED <<monitorVars, resolver, parsed, pipelineVars, listenerVars, placing>>

(***************************************************************************)
(* The entry decision on its own: the offline decide_entry of the          *)
(* evaluator and the live _decide_entry of MT5Client, on one band and one  *)
(* quote.                                                                  *)
(***************************************************************************)
\* MT5Client.MARKET_ORDER_TYPES
MARKET_ORDER_TYPES == {"ORDER_TYPE_BUY", "ORDER_TYPE_SELL"}

is_market_order_type(order_type) == order_type \in MARKET_ORDER_TYPES

\* TOLERANCE of MT5Client._decide_entry
ENTRY_TOLERANCE == 1

\* (mutant) a missing quote is taken for a quote far below the band
live_decide_entry_NoDefault(tick, side, entry_low, entry_high) ==
    IF tick.is_none THEN Entry("ORDER_TYPE_BUY_LIMIT", Some(entry_high))
    ELSE Entry("ORDER_TYPE_BUY", Some(tick.val.ask))

\* (mutant) the tolerance is left out of both comparisons
live_decide_entry_NoTolerance(tick, side, entry_low, entry_high) ==
    IF tick.is_none THEN Entry("ORDER_TYPE_BUY", NoneOpt)
    ELSE IF side = "BUY"
         THEN IF entry_high < tick.val.ask
              THEN Entry("ORDER_TYPE_BUY_LIMIT", Some(entry_high))
              ELSE Entry("ORDER_TYPE_BUY", Some(tick.val.ask))
         ELSE IF entry_low > tick.val.bid
              THEN Entry("ORDER_TYPE_SELL_LIMIT", Some(entry_low))
              ELSE Entry("ORDER_TYPE_SELL", Some(tick.val.bid))

\* MT5Client._decide_entry
live_decide_entry(tick, side, entry_low, entry_high) ==
    IF tick.is_none THEN Entry("ORDER_TYPE_BUY", NoneOpt)
    ELSE LET ask == tick.val.ask
             bid == tick.val.bid
         IN IF side = "BUY"
            THEN IF entry_high < ask - ENTRY_TOLERANCE
                 THEN Entry("ORDER_TYPE_BUY_LIMIT", Some(entry_high))
                 ELSE Entry("ORDER_TYPE_BUY", Some(ask))
            ELSE IF entry_low > bid + ENTRY_TOLERANCE
                 THEN Entry("ORDER_TYPE_SELL_LIMIT", Some(entry_low))
                 ELSE Entry("ORDER_TYPE_SELL", Some(bid))

Sides == {"BUY", "SELL"}

\* entry bands as the parser leaves them: entry_low <= entry_high
Bands == { b \in [entry_low : Prices, entry_high : Prices] : b.entry_low <= b.entry_high }

\* no entry decision is being taken
ResolverIdle ==
    [side |-> NoneV, entry_low |-> 0, entry_high |-> 0, tick |-> NoneOpt,
     offline |-> NoResult, live |-> NoResult]

ResolverInput(side, band, q) ==
    [side |-> side, entry_low |-> band.entry_low, entry_high |-> band.entry_high,
     tick |-> q, offline |-> NoResult, live |-> NoResult]

\* Evaluator.decide_entry(symbol, side, entry_low, entry_high)
DecideOffline ==
    /\ resolver.offline = NoResult
    /\ resolver' = [resolver EXCEPT !.offline = decide_entry(resolver.tick, resolver.side,
                                                   resolver.entry_low, resolver.entry_high)]
    /\ UNCHANGED <<monitorVars, ev, parsed, pipelineVars, listenerVars, placing>>

\* MT5Client._decide_entry(symbol, side, entry_low, entry_high)
DecideLive ==
    /\ resolver.live = NoResult
    /\ resolver' = [resolver EXCEPT !.live = live_decide_entry(resolver.tick, resolver.side,
                                                   resolver.entry_low, resolver.entry_high)]
    /\ UNCHANGED <<monitorVars, ev, parsed, pipelineVars, listenerVars, placing>>

(***************************************************************************)
(* shared/parser.py.  A message text is given by its lines: the header     *)
(* line (ENTRIAMO IN <side> SU <symbol>), the ENTRATA line with the two    *)
(* numbers around its dash, the STOP LOSS line and the TAKE PROFIT lines,  *)
(* each present or not.  A number of the text is Num(v), or Junk when the  *)
(* token holds no digit.                                                   *)
(***************************************************************************)
Num(v) == [digits |-> TRUE, val |-> v]

Junk == [digits |-> FALSE]

Tokens(n) == {Junk} \cup { Num(v) : v \in 0..n }

TokenSeqs(n, len) == UNION { [1..k -> Tokens(n)] : k \in 0..len }

\* _normalize_number raises ValueError on a token without a digit
normalize_number(tok) == IF tok.digits THEN Value(tok.val) ELSE RaiseResp

\* sorted([a, b])
sorted(a, b) == IF a <= b THEN <<a, b>> ELSE <<b, a>>

\* Python's truth value of a float
NumberTruthy(x) == x /= 0

\* the tokens parse hands to _normalize_number, in the order of the lines
NumbersOf(m) ==
    (IF m.entrata.is_none THEN <<>> ELSE m.entrata.val)
        \o (IF m.stop_loss.is_none THEN <<>> ELSE <<m.stop_loss.val>>)
        \o m.take_profit

Returned(v) == [kind |-> "return", val |-> v]

\* lines 122-137: one Signal per take-profit, tp_index from 1
BuildSignals(message_id, created_at, symbol, direction, band, sl_value, tp_values) ==
    [i \in DOMAIN tp_values |->
        [message_id |-> message_id, created_at |-> created_at, symbol |-> symbol,
         side |-> direction, entry_low |-> band[1], entry_high |-> band[2],
         tp |-> tp_values[i], sl |-> sl_value, tp_index |-> i]]

\* SignalParser.parse(message_id, created_at, text)
parse(message_id, created_at, m) ==
    IF \E i \in DOMAIN NumbersOf(m) : normalize_number(NumbersOf(m)[i]).kind = "raise"
    THEN Raises("ValueError", 50)
    ELSE LET symbol == IF m.header.is_none THEN NoneOpt ELSE Some("XAUUSD.s")
             direction == m.header
             band == IF m.entrata.is_none THEN NoneOpt
                     ELSE Some(sorted(m.entrata.val[1].val, m.entrata.val[2].val))
             sl_value == IF m.stop_loss.is_none THEN NoneOpt ELSE Some(m.stop_loss.val.val)
             tp_values == [i \in DOMAIN m.take_profit |-> m.take_profit[i].val]
         IN IF \/ symbol.is_none \/ direction.is_none
               \/ band.is_none \/ ~NumberTruthy(band.val[1]) \/ ~NumberTruthy(band.val[2])
               \/ sl_value.is_none \/ ~NumberTruthy(sl_value.val)
            THEN Returned(NoneOpt)
            ELSE IF tp_values = <<>>
                 THEN Returned(NoneOpt)
                 ELSE Returned(Some(BuildSignals(message_id, created_at, symbol.val,
                                        direction.val, band.val, sl_value.val, tp_values)))

\* no message is being parsed
ParserIdle == [text |-> NoneOpt, out |-> NoResult]

TextOf(h, e, sl, tps) == [header |-> h, entrata |-> e, stop_loss |-> sl, take_profit |-> tps]

\* self.parser.parse(message.id, message.date, text)
Parse ==
    /\ ~parsed.text.is_none
    /\ parsed.out = NoResult
    /\ parsed' = [parsed EXCEPT !.out = parse(1, 1, parsed.text.val)]
    /\ UNCHANGED <<monitorVars, ev, resolver, pipelineVars, listenerVars, placing>>

\* execute_trade was not called yet
ExecutedIdle ==
    [signal |-> NoneOpt, priced |-> FALSE, decision |-> "none", main |-> "none",
     orders |-> <<>>, result |-> NoResult]

\* no signal is queued, no trade is monitored
PipelineIdle ==
    /\ signal_queue = <<>>
    /\ monitor_queue = <<>>
    /\ tasks = <<>>
    /\ book = <<>>
    /\ handled = <<>>
    /\ arrived = <<>>
    /\ dispatched = <<>>
    /\ executed = ExecutedIdle

(***************************************************************************)
(* mt_bot/trade_executioner.py.  execute_trade reads the quote twice: in   *)
(* get_market_price and again in _decide_entry.                            *)
(***************************************************************************)
\* the methods class MT5Client defines
MT5ClientMethods ==
    {"connect", "shutdown", "ensure_symbol", "get_market_price", "get_positions",
     "get_orders", "get_position_ticket", "get_history_deals", "get_bars",
     "is_market_order_type", "place_pending_order", "_ensure_valid_pending_price",
     "place_instant_market_order", "cancel_pending_order", "_get_order_price",
     "_decide_entry", "_build_order_request", "_build_instant_order_request",
     "_process_order_result"}

\* MT5Client.get_market_price: None without a tick, else ask for BUY and bid for SELL
get_market_price(tick, side) ==
    IF tick.is_none THEN NoneOpt
    ELSE Some(IF side = "BUY" THEN tick.val.ask ELSE tick.val.bid)

\* a TradeResult of _process_order_result
TradeResults ==
    { [success |-> ok, order_id |-> Some(1), price |-> Some(2)] : ok \in BOOLEAN }

\* _place_pending_order: self.trader.place_market_order is looked up on the
\* MT5Client, the AttributeError is caught at line 104 and None returned
place_pending_order_of_signal(signal, sent) ==
    IF "place_market_order" \notin MT5ClientMethods THEN NoneOpt
    ELSE IF sent.is_none \/ ~sent.val.success THEN NoneOpt ELSE sent

\* _place_instant_order_if_needed: no order when the decision is immediate; what
\* place_instant_market_order returns when it succeeded, None otherwise
place_instant_order_if_needed(is_immediate, sent) ==
    IF is_immediate THEN NoneOpt
    ELSE IF sent.is_none \/ ~sent.val.success THEN NoneOpt ELSE sent

\* _choose_main_result
choose_main_result(pending_result, instant_result) ==
    LET chosen == IF instant_result.is_none THEN pending_result ELSE instant_result
    IN IF chosen.is_none THEN NoneOpt
       ELSE IF ~chosen.val.success \/ chosen.val.order_id.is_none THEN NoneOpt
            ELSE chosen

\* _build_trade_handle
build_trade_handle(signal, chosen_result, position_ticket, signal_entry_price, market_price) ==
    [ticket |-> position_ticket,
     signal |-> signal,
     signal_entry_price |-> signal_entry_price,
     executed_price |-> IF PriceTruthy(chosen_result.price) THEN chosen_result.price.val
                        ELSE signal_entry_price,
     opened_at |-> signal.created_at,
     market_price_at_signal |-> market_price,
     pending_order_tickets |-> <<>>,
     is_parent |-> FALSE]

\* execute_trade from line 36 on, the market price being known.  tick_entry is
\* the quote _decide_entry reads; main_sent and instant_sent are what the broker
\* answers to the orders.  Line 68 looks up find_position_ticket on the MT5Client.
execute_after_price(signal, price, tick_entry, main_sent, instant_sent) ==
    LET decision == live_decide_entry(tick_entry, signal.side,
                                      signal.entry_low, signal.entry_high)
        is_immediate == is_market_order_type(decision.type)
        signal_entry_price == IF PriceTruthy(decision.price) THEN decision.price.val
                              ELSE price
        pending_result == place_pending_order_of_signal(signal, main_sent)
    IN IF pending_result.is_none THEN Returned(NoneOpt)
       ELSE LET instant_result == place_instant_order_if_needed(is_immediate, instant_sent)
                chosen_result == choose_main_result(pending_result, instant_result)
            IN IF chosen_result.is_none THEN Returned(NoneOpt)
               ELSE IF "find_position_ticket" \notin MT5ClientMethods
                    THEN Raises("AttributeError", 68)
                    ELSE Returned(Some(build_trade_handle(signal, chosen_result.val,
                                        PositionTicket, signal_entry_price, price)))

\* (mutant) the price is read as _get_order_price reads it, which raises without
\* a quote
execute_trade_PriceRaises(signal, tick_price, tick_entry, main_sent, instant_sent) ==
    IF tick_price.is_none THEN Raises("RuntimeError", 304)
    ELSE execute_after_price(signal, get_market_price(tick_price, signal.side).val,
                             tick_entry, main_sent, instant_sent)

\* TradeExecutioner.execute_trade.  tick_price is the quote get_market_price reads.
execute_trade(signal, tick_price, tick_entry, main_sent, instant_sent) ==
    LET market_price == get_market_price(tick_price, signal.side)
    IN IF market_price.is_none THEN Returned(NoneOpt)
       ELSE execute_after_price(signal, market_price.val, tick_entry, main_sent,
                                instant_sent)

\* how the try block of _place_pending_order ends: "raised" when the lookup of
\* place_market_order or the call raises (the broker gave no answer), else
\* "failed" or "succeeded" by the TradeResult
MainOutcome(main_sent) ==
    IF "place_market_order" \notin MT5ClientMethods \/ main_sent.is_none THEN "raised"
    ELSE IF main_sent.val.success THEN "succeeded" ELSE "failed"

\* the main order reaches the broker only through place_market_order
MainOrders == IF "place_market_order" \in MT5ClientMethods THEN <<"main">> ELSE <<>>

\* (mutant) the instant order is placed before the main order's result is looked at
execute_trade_orders_InstantFirst(signal, tick_price, tick_entry, main_sent, instant_sent) ==
    LET decision == live_decide_entry(tick_entry, signal.side,
                                      signal.entry_low, signal.entry_high)
    IN IF get_market_price(tick_price, signal.side).is_none THEN <<>>
       ELSE IF is_market_order_type(decision.type) THEN MainOrders
            ELSE MainOrders \o <<"instant">>

\* the orders one execute_trade call sends to the broker, in order: the main order
\* of line 54, then the instant order of line 59 when line 55 did not return and
\* the decision is not immediate
execute_trade_orders(signal, tick_price, tick_entry, main_sent, instant_sent) ==
    LET decision == live_decide_entry(tick_entry, signal.side,
                                      signal.entry_low, signal.entry_high)
        pending_result == place_pending_order_of_signal(signal, main_sent)
    IN IF get_market_price(tick_price, signal.side).is_none THEN <<>>
       ELSE IF pending_result.is_none \/ is_market_order_type(decision.type) THEN MainOrders
            ELSE MainOrders \o <<"instant">>

\* one execute_trade call: whether it had a market price, its entry decision, how
\* the main order ended, the orders it sent and what it returned or raised
ExecuteTradeRun(signal, tick_price, tick_entry, main_sent, instant_sent) ==
    LET priced == ~get_market_price(tick_price, signal.side).is_none
        decision == live_decide_entry(tick_entry, signal.side,
                                      signal.entry_low, signal.entry_high)
    IN [signal |-> Some(signal),
        priced |-> priced,
        decision |-> IF ~priced THEN "none"
                     ELSE IF is_market_order_type(decision.type) THEN "immediate"
                          ELSE "pending",
        main |-> IF priced THEN MainOutcome(main_sent) ELSE "none",
        orders |-> execute_trade_orders(signal, tick_price, tick_entry, main_sent,
                                        instant_sent),
        result |-> execute_trade(signal, tick_price, tick_entry, main_sent, instant_sent)]

(***************************************************************************)
(* app/runner.py: the listener, the trader loop, the monitor loop and the  *)
(* monitoring tasks on one event loop.  Both queues are unbounded, so a    *)
(* put never waits; a step runs from one await to the next.                *)
(***************************************************************************)
\* (mutant) the newest item is taken first
queue_get_Newest(q) == [item |-> Last(q), rest |-> SubSeq(q, 1, Len(q) - 1)]

\* (mutant) the item is read and left on the queue
queue_get_Peek(q) == [item |-> Head(q), rest |-> q]

\* asyncio.Queue.get on a queue that holds an item
queue_get(q) == [item |-> Head(q), rest |-> Tail(q)]

\* the text of the message with a given id: a BUY with two take-profits, a SELL
\* with one, then a text whose stop-loss holds no digit
TextOfMessage(id) ==
    IF id % 3 = 1
    THEN TextOf(Some("BUY"), Some(<<Num(2), Num(3)>>), Some(Num(1)), <<Num(4), Num(5)>>)
    ELSE IF id % 3 = 2
         THEN TextOf(Some("SELL"), Some(<<Num(3), Num(4)>>), Some(Num(5)), <<Num(2)>>)
         ELSE TextOf(Some("BUY"), Some(<<Num(2), Num(3)>>), Some(Junk), <<Num(4)>>)

\* Telegram: the next message is posted to the channel
MessagePosted ==
    /\ upcoming /= <<>>
    /\ channel' = Append(channel, Head(upcoming))
    /\ upcoming' = Tail(upcoming)
    /\ UNCHANGED <<monitorVars, ev, resolver, parsed, pipelineVars, last_message_id, examined,
                   placing>>

\* Telegram: a message of the channel is deleted
MessageDeleted ==
    /\ \E i \in DOMAIN channel :
          channel' = SubSeq(channel, 1, i - 1) \o SubSeq(channel, i + 1, Len(channel))
    /\ UNCHANGED <<monitorVars, ev, resolver, parsed, pipelineVars, upcoming, last_message_id,
                   examined, placing>>

\* get_chat_history(TELEGRAM_GROUP_ID, limit=1): the latest message, if any
get_chat_history(ch) == IF ch = <<>> THEN <<>> ELSE <<Last(ch)>>

\* line 65: self.last_message_id != message.id
IsNewMessage(last, id) == last /= Some(id)

\* what the parser's result puts on the queue (lines 79-83): every Signal of a
\* non-empty list; nothing for None and nothing when parse raised (line 85)
SignalsToPut(signals) ==
    IF signals.kind = "return" /\ ~signals.val.is_none THEN signals.val.val ELSE <<>>

\* TelegramListener.poll_channel, one iteration of its loop (lines 61-88)
poll_channel ==
    LET history == get_chat_history(channel)
    IN IF history /= <<>> /\ IsNewMessage(last_message_id, history[1])
       THEN LET message == history[1]
                signals == parse(message, 1, TextOfMessage(message))
            IN /\ last_message_id' = Some(message)
               /\ examined' = Append(examined, message)
               /\ signal_queue' = signal_queue \o SignalsToPut(signals)
               /\ arrived' = arrived \o SignalsToPut(signals)
               /\ UNCHANGED <<monitorVars, ev, resolver, parsed, monitor_queue, tasks, book,
                              handled, dispatched, executed, channel, upcoming,
                              placing>>
       ELSE UNCHANGED vars

\* what the broker may answer to an order: nothing, or a TradeResult
OrderAnswers == {NoneOpt} \cup { Some(r) : r \in TradeResults }

\* the execute_trade calls possible for a signal, over the quotes of its two reads
\* and the broker's answers
ExecuteTradeRuns(sig) ==
    { ExecuteTradeRun(sig, tick_price, tick_entry, main_sent, instant_sent) :
          tick_price \in Quotes, tick_entry \in Quotes,
          main_sent \in OrderAnswers, instant_sent \in OrderAnswers }

\* the signals the listener can put on the queue
QueuedSignals ==
    UNION { Range(SignalsToPut(parse(id, 1, TextOfMessage(id)))) : id \in 1..MaxMessages }

\* ExecuteTradeRuns, tabulated for the signals that can be queued
ExecuteTradeTable == [sig \in QueuedSignals |-> ExecuteTradeRuns(sig)]

\* mt5.symbol_info_tick raises inside get_market_price (line 31 of execute_trade)
TickReadRaises(sig) ==
    [ExecutedIdle EXCEPT !.signal = Some(sig), !.result = Raises("RuntimeError", 31)]

\* the calls possible with a broker library whose quote read may also raise
ExecuteTradeTableThrows ==
    [sig \in QueuedSignals |-> ExecuteTradeTable[sig] \cup {TickReadRaises(sig)}]

\* (mutant) no try/except around execute_trade: its first exception ends the loop
LoopRunning_Uncaught(hs) == \A i \in DOMAIN hs : hs[i].result.kind /= "raise"

\* trader_loop is still in its `while True` after the calls hs: an exception of
\* execute_trade is caught and logged at lines 60-61
LoopRunning(hs) == TRUE

\* trader_loop, one iteration: the signal is taken (the listener puts Signal
\* objects only, never None), execute_trade runs to its end, as one of the calls
\* runs[sig], and its handle, if any, is put on the monitor queue; an exception
\* is logged
TraderIteration(runs) ==
    /\ LoopRunning(handled)
    /\ signal_queue /= <<>>
    /\ LET got == queue_get(signal_queue)
           sig == got.item
       IN /\ signal_queue' = got.rest
          /\ \E run \in runs[sig] :
                LET result == run.result
                    trade_handle == IF result.kind = "return" THEN result.val ELSE NoneOpt
                IN /\ handled' = Append(handled, [signal |-> sig, result |-> result])
                   /\ executed' = run
                   /\ IF ~trade_handle.is_none
                      THEN /\ monitor_queue' = Append(monitor_queue, trade_handle.val)
                           /\ dispatched' = Append(dispatched, trade_handle.val)
                      ELSE UNCHANGED <<monitor_queue, dispatched>>
    /\ UNCHANGED <<monitorVars, ev, resolver, parsed, tasks, book, arrived,
                   listenerVars, placing>>

trader_loop == TraderIteration(ExecuteTradeTable)

\* trader_loop with a broker library whose calls may raise
trader_loop_throws == TraderIteration(ExecuteTradeTableThrows)

\* a task of asyncio.create_task(monitor.monitor_trade(trade_handle))
NewTask(trade_handle) == [trade |-> trade_handle, pc |-> "poll"]

\* monitor_loop, one iteration
monitor_loop ==
    /\ monitor_queue /= <<>>
    /\ LET got == queue_get(monitor_queue)
       IN /\ monitor_queue' = got.rest
          /\ tasks' = Append(tasks, NewTask(got.item))
    /\ UNCHANGED <<monitorVars, ev, resolver, parsed, signal_queue, book, handled, arrived,
                   dispatched, executed, listenerVars, placing>>

\* (mutant) monitor_loop awaits monitor_trade instead of creating a task: a task
\* runs only once every older one has ended
Runnable_Awaited(ts, i) == ts[i].pc = "poll" /\ \A j \in 1..(i - 1) : ts[j].pc = "done"

\* the event loop may run task i: it is not waiting in asyncio.sleep and has not ended
Runnable(ts, i) == ts[i].pc = "poll"

\* monitor_trade of task i, one iteration of lines 56-110 with a stable link
monitor_trade(i) ==
    /\ i \in DOMAIN tasks
    /\ Runnable(tasks, i)
    /\ LET tr == tasks[i].trade
           positions == IF book[tr.ticket].open THEN <<[ticket |-> tr.ticket]>> ELSE <<>>
           history == book[tr.ticket].deals
       IN IF PositionStillOpen(positions) \/ HistoryMissing(history)
          THEN /\ tasks' = [tasks EXCEPT ![i].pc = "sleep"]
               /\ UNCHANGED <<rows, file, sheet, emitted, liveOrders>>
          ELSE LET row == build_row_from_deal(tr, Last(history))
                   pending_ticket == getattr(tr, "pending_order_ticket", NoneV)
               IN /\ rows' = Append(rows, row)
                  /\ emitted' = Append(emitted, row)
                  /\ file' = save_results_to_json(rows')
                  /\ sheet' = <<sheet_cells(row)>> \o sheet
                  /\ liveOrders' = IF row.result = "TP" /\ pending_ticket /= NoneV
                                   THEN liveOrders \ {pending_ticket}
                                   ELSE liveOrders
                  /\ tasks' = [tasks EXCEPT ![i].pc = "done"]
    /\ UNCHANGED <<trade, pc, posOpen, deals, linkUp, polls, closing_deal, calls, raised,
                   seenClosed, ev, resolver, parsed, signal_queue, monitor_queue, book,
                   handled, arrived, dispatched, executed, listenerVars, placing>>

\* asyncio.sleep(10) of task i is over
TaskWake(i) ==
    /\ i \in DOMAIN tasks
    /\ tasks[i].pc = "sleep"
    /\ tasks' = [tasks EXCEPT ![i].pc = "poll"]
    /\ UNCHANGED <<monitorVars, ev, resolver, parsed, signal_queue, monitor_queue, book,
                   handled, arrived, dispatched, executed, listenerVars, placing>>

\* broker: the position of ticket t is closed at the take-profit of its signal, and
\* its two deals are in the history
PositionCloses(t) ==
    /\ book[t].open
    /\ \E i \in DOMAIN dispatched :
          /\ dispatched[i].ticket = t
          /\ book' = [book EXCEPT ![t] =
                        [open |-> FALSE,
                         deals |-> <<[entry |-> "IN", price |-> dispatched[i].executed_price,
                                      time |-> 1],
                                     [entry |-> "OUT", price |-> dispatched[i].signal.tp,
                                      time |-> 2]>>]]
    /\ UNCHANGED <<monitorVars, ev, resolver, parsed, signal_queue, monitor_queue, tasks,
                   handled, arrived, dispatched, executed, listenerVars, placing>>

\* the handle of the k-th position: tickets from PositionTicket on, BUY and SELL
\* signals in turn
HandleOf(k) ==
    LET signal == IF k % 2 = 1
                  THEN parse(k, 1, TextOfMessage(1)).val.val[1]
                  ELSE parse(k, 1, TextOfMessage(2)).val.val[1]
    IN build_trade_handle(signal, [success |-> TRUE, order_id |-> Some(k), price |-> NoneOpt],
                          PositionTicket + k - 1, signal.entry_low, signal.entry_low)

(***************************************************************************)
(* mt_bot/mt5_client.py, place_pending_order.  The quote is read three     *)
(* times: in _get_order_price, in _decide_entry and in                     *)
(* _ensure_valid_pending_price; it may move or vanish between the reads.   *)
(***************************************************************************)
\* a Signal of one side with its band, stop-loss and take-profit outside the band
OrderSignal(side, band) ==
    [symbol |-> "XAUUSD.s", side |-> side,
     entry_low |-> band.entry_low, entry_high |-> band.entry_high,
     sl |-> IF side = "BUY" THEN band.entry_low - 1 ELSE band.entry_high + 1,
     tp |-> IF side = "BUY" THEN band.entry_high + 1 ELSE band.entry_low - 1]

OrderSignals == { OrderSignal(side, band) : side \in Sides, band \in Bands }

\* the offset place_pending_order is given
Offsets == {0, 1}

\* _get_order_price
get_order_price(tick, side) ==
    IF tick.is_none THEN Raises("RuntimeError", 304)
    ELSE Returned(IF side = "BUY" THEN tick.val.ask ELSE tick.val.bid)

\* _ensure_valid_pending_price: (final_order_type, final_price)
ensure_valid_pending_price(tick, side, order_type, price) ==
    IF tick.is_none THEN Raises("RuntimeError", 237)
    ELSE IF order_type = "ORDER_TYPE_BUY_LIMIT" /\ price >= tick.val.ask
         THEN Returned(Entry("ORDER_TYPE_BUY", tick.val.ask))
         ELSE IF order_type = "ORDER_TYPE_SELL_LIMIT" /\ price <= tick.val.bid
              THEN Returned(Entry("ORDER_TYPE_SELL", tick.val.bid))
              ELSE Returned(Entry(order_type, price))

\* the band _build_order_request decides on: shifted by the offset, down for a
\* BUY and up for a SELL
ShiftedLow(signal, offset) ==
    IF signal.side = "BUY" THEN signal.entry_low - offset ELSE signal.entry_low + offset

ShiftedHigh(signal, offset) ==
    IF signal.side = "BUY" THEN signal.entry_high - offset ELSE signal.entry_high + offset

\* the request dict: the fields that vary
Request(action, signal, order_type, price) ==
    [action |-> action, symbol |-> signal.symbol, type |-> order_type, price |-> price,
     sl |-> signal.sl, tp |-> signal.tp]

\* _build_order_request; tick_entry is the quote _decide_entry reads, tick_valid
\* the one _ensure_valid_pending_price reads
build_order_request(signal, price, offset, tick_entry, tick_valid) ==
    LET decided == live_decide_entry(tick_entry, signal.side, ShiftedLow(signal, offset),
                                     ShiftedHigh(signal, offset))
        entry_price == decided.price
        base_price == IF ~entry_price.is_none THEN entry_price.val ELSE price
    IN IF is_market_order_type(decided.type)
       THEN Returned(Request("TRADE_ACTION_DEAL", signal, decided.type,
                             IF ~entry_price.is_none THEN entry_price.val ELSE price))
       ELSE LET valid == ensure_valid_pending_price(tick_valid, signal.side, decided.type,
                                                    base_price)
            IN IF valid.kind = "raise" THEN valid
               ELSE LET order_type == valid.val.type
                        price2 == valid.val.price
                        action == IF is_market_order_type(order_type)
                                  THEN "TRADE_ACTION_DEAL" ELSE "TRADE_ACTION_PENDING"
                    IN Returned(Request(action, signal, order_type,
                                 IF ~entry_price.is_none THEN entry_price.val ELSE price2))

\* _process_order_result
process_order_result(result) ==
    IF result.is_none THEN Raises("RuntimeError", 419) ELSE Returned(result.val)

\* no order is being placed
PlacingIdle ==
    [signal |-> NoneOpt, offset |-> 0, tick_price |-> NoneOpt, tick_entry |-> NoneOpt,
     tick_valid |-> NoneOpt, request |-> NoResult, sent |-> <<>>, out |-> NoResult]

PlacingInput(signal, offset) == [PlacingIdle EXCEPT !.signal = Some(signal), !.offset = offset]

\* MT5Client.place_pending_order(signal, offset), from its first line to its
\* return or raise, with the three quotes it reads and the broker's answer
place_pending_order ==
    /\ ~placing.signal.is_none
    /\ placing.out = NoResult
    /\ \E tick_price \in Quotes, tick_entry \in Quotes, tick_valid \in Quotes :
       \E answer \in OrderAnswers :
          LET signal == placing.signal.val
              price == get_order_price(tick_price, signal.side)
              request == IF price.kind = "raise" THEN NoResult
                         ELSE build_order_request(signal, price.val, placing.offset,
                                                  tick_entry, tick_valid)
              ticks == [placing EXCEPT !.tick_price = tick_price,
                                       !.tick_entry = tick_entry,
                                       !.tick_valid = tick_valid,
                                       !.request = request]
          IN placing' =
                IF price.kind = "raise" THEN [ticks EXCEPT !.out = price]
                ELSE IF request.kind = "raise" THEN [ticks EXCEPT !.out = request]
                ELSE [ticks EXCEPT !.sent = <<request.val>>,
                                   !.out = process_order_result(answer)]
    /\ UNCHANGED <<monitorVars, ev, resolver, parsed, pipelineVars, listenerVars>>

\* no message was posted, none was read
ListenerIdle ==
    /\ channel = <<>>
    /\ upcoming = <<>>
    /\ last_message_id = NoneOpt
    /\ examined = <<>>

\* the process is restarted: main() makes new queues and a new TradeMonitor, whose
\* __init__ loads the rows from the results file; the tasks of the old process
\* are gone, and the listener reads back the last message id it wrote
Restart ==
    /\ rows' = load_existing_rows(file)
    /\ signal_queue' = <<>>
    /\ monitor_queue' = <<>>
    /\ tasks' = <<>>
    /\ UNCHANGED <<trade, pc, file, sheet, posOpen, deals, liveOrders, linkUp, polls, emitted,
                   closing_deal, calls, raised, seenClosed, ev, resolver, parsed, book,
                   handled, arrived, dispatched, executed, listenerVars, placing>>

(***************************************************************************)
(* The monitoring task from its start, in a TradeMonitor constructed with   *)
(* no results file on disk yet.                                            *)
(***************************************************************************)
Init ==
    /\ trade \in TradeHandles
    /\ pc = "poll"
    /\ file = AbsentFile
    /\ rows = load_existing_rows(file)
    /\ sheet = <<>>
    /\ posOpen = TRUE
    /\ deals = <<>>
    /\ liveOrders = Range(trade.pending_order_tickets)
    /\ linkUp = TRUE
    /\ polls = 0
    /\ emitted = <<>>
    /\ closing_deal = NoDeal
    /\ calls = <<>>
    /\ raised = NoneV
    /\ seenClosed = FALSE
    /\ ev = EvIdle
    /\ resolver = ResolverIdle
    /\ parsed = ParserIdle
    /\ PipelineIdle
    /\ ListenerIdle
    /\ placing = PlacingIdle

Next == Poll \/ Wake \/ Broker

Spec == Init /\ [][Next]_vars

\* asyncio resumes a task whose sleep is over and runs it to its next await
FairSpec == Spec /\ WF_vars(Poll) /\ WF_vars(Wake)

NextThrows == PollThrows \/ Wake \/ Broker

SpecThrows == Init /\ [][NextThrows]_vars

\* An offline run (app/evaluate_history.py): no trade is being monitored
InitEval ==
    /\ trade = NoneV
    /\ pc = "idle"
    /\ file = AbsentFile
    /\ rows = load_existing_rows(file)
    /\ sheet = <<>>
    /\ posOpen = FALSE
    /\ deals = <<>>
    /\ liveOrders = {}
    /\ linkUp = TRUE
    /\ polls = 0
    /\ emitted = <<>>
    /\ closing_deal = NoDeal
    /\ calls = <<>>
    /\ raised = NoneV
    /\ seenClosed = FALSE
    /\ \E s \in Signals, k \in BOOLEAN, q \in Quotes, b \in BarSeqs(MaxBars) :
          \E t \in (IF HasTieBar(s, b) THEN TickSeqs(MaxTicks) ELSE {<<>>}) :
              ev = EvInput(s, k, q, b, t)
    /\ resolver = ResolverIdle
    /\ parsed = ParserIdle
    /\ PipelineIdle
    /\ ListenerIdle
    /\ placing = PlacingIdle

NextEval == Evaluate \/ EvaluateAgain

SpecEval == InitEval /\ [][NextEval]_vars

\* The two entry decisions on every side, band and quote
InitEntry ==
    /\ trade = NoneV
    /\ pc = "idle"
    /\ file = AbsentFile
    /\ rows = load_existing_rows(file)
    /\ sheet = <<>>
    /\ posOpen = FALSE
    /\ deals = <<>>
    /\ liveOrders = {}
    /\ linkUp = TRUE
    /\ polls = 0
    /\ emitted = <<>>
    /\ closing_deal = NoDeal
    /\ calls = <<>>
    /\ raised = NoneV
    /\ seenClosed = FALSE
    /\ ev = EvIdle
    /\ \E side \in Sides, band \in Bands, q \in Quotes :
          resolver = ResolverInput(side, band, q)
    /\ parsed = ParserIdle
    /\ PipelineIdle
    /\ ListenerIdle
    /\ placing = PlacingIdle

NextEntry == DecideOffline \/ DecideLive

SpecEntry == InitEntry /\ [][NextEntry]_vars

\* The parser on every message text of the bounds
InitParse ==
    /\ trade = NoneV
    /\ pc = "idle"
    /\ file = AbsentFile
    /\ rows = load_existing_rows(file)
    /\ sheet = <<>>
    /\ posOpen = FALSE
    /\ deals = <<>>
    /\ liveOrders = {}
    /\ linkUp = TRUE
    /\ polls = 0
    /\ emitted = <<>>
    /\ closing_deal = NoDeal
    /\ calls = <<>>
    /\ raised = NoneV
    /\ seenClosed = FALSE
    /\ ev = EvIdle
    /\ resolver = ResolverIdle
    /\ \E h \in {NoneOpt} \cup { Some(side) : side \in Sides },
          e \in {NoneOpt} \cup { Some(<<l, r>>) : l \in Tokens(MaxNumber),
                                                   r \in Tokens(MaxNumber) },
          sl \in {NoneOpt} \cup { Some(t) : t \in Tokens(MaxNumber) },
          tps \in TokenSeqs(MaxNumber, MaxTps) :
          parsed = [text |-> Some(TextOf(h, e, sl, tps)), out |-> NoResult]
    /\ PipelineIdle
    /\ ListenerIdle
    /\ placing = PlacingIdle

NextParse == Parse

SpecParse == InitParse /\ [][NextParse]_vars

\* The event loop of runner.main.  run_monitor_process is given a queue that holds
\* the handles of up to MaxHandles open positions.
InitPipeline ==
    /\ trade = NoneV
    /\ pc = "idle"
    /\ file = AbsentFile
    /\ rows = load_existing_rows(file)
    /\ sheet = <<>>
    /\ posOpen = FALSE
    /\ deals = <<>>
    /\ liveOrders = {}
    /\ linkUp = TRUE
    /\ polls = 0
    /\ emitted = <<>>
    /\ closing_deal = NoDeal
    /\ calls = <<>>
    /\ raised = NoneV
    /\ seenClosed = FALSE
    /\ ev = EvIdle
    /\ resolver = ResolverIdle
    /\ parsed = ParserIdle
    /\ signal_queue = <<>>
    /\ \E n \in 0..MaxHandles : monitor_queue = [k \in 1..n |-> HandleOf(k)]
    /\ dispatched = monitor_queue
    /\ tasks = <<>>
    /\ book = [t \in {monitor_queue[k].ticket : k \in DOMAIN monitor_queue} |->
                  [open |-> TRUE, deals |-> <<>>]]
    /\ handled = <<>>
    /\ arrived = <<>>
    /\ executed = ExecutedIdle
    /\ channel = <<>>
    /\ upcoming = [k \in 1..MaxMessages |-> k]
    /\ last_message_id = NoneOpt
    /\ examined = <<>>
    /\ placing = PlacingIdle

NextPipeline ==
    \/ MessagePosted
    \/ MessageDeleted
    \/ poll_channel
    \/ trader_loop
    \/ monitor_loop
    \/ \E i \in 1..MaxHandles : monitor_trade(i)
    \/ \E i \in 1..MaxHandles : TaskWake(i)
    \/ \E t \in DOMAIN book : PositionCloses(t)

SpecPipeline == InitPipeline /\ [][NextPipeline]_vars

\* asyncio runs every task that is ready: the two loops when their queue holds an
\* item, a monitoring task when it was created or its sleep is over
FairPipeline ==
    /\ SpecPipeline
    /\ WF_vars(trader_loop)
    /\ WF_vars(monitor_loop)
    /\ \A i \in 1..MaxHandles : WF_vars(monitor_trade(i)) /\ WF_vars(TaskWake(i))

\* the program with a broker library whose quote read may raise
NextPipelineThrows ==
    \/ MessagePosted
    \/ MessageDeleted
    \/ poll_channel
    \/ trader_loop_throws
    \/ monitor_loop
    \/ \E i \in 1..MaxHandles : monitor_trade(i)
    \/ \E i \in 1..MaxHandles : TaskWake(i)
    \/ \E t \in DOMAIN book : PositionCloses(t)

SpecPipelineThrows == InitPipeline /\ [][NextPipelineThrows]_vars

FairPipelineThrows == SpecPipelineThrows /\ WF_vars(trader_loop_throws)

\* the listener alone: the channel receives up to MaxPosts messages, any of which
\* may be deleted, while poll_channel runs
InitListener ==
    /\ trade = NoneV
    /\ pc = "idle"
    /\ file = AbsentFile
    /\ rows = load_existing_rows(file)
    /\ sheet = <<>>
    /\ posOpen = FALSE
    /\ deals = <<>>
    /\ liveOrders = {}
    /\ linkUp = TRUE
    /\ polls = 0
    /\ emitted = <<>>
    /\ closing_deal = NoDeal
    /\ calls = <<>>
    /\ raised = NoneV
    /\ seenClosed = FALSE
    /\ ev = EvIdle
    /\ resolver = ResolverIdle
    /\ parsed = ParserIdle
    /\ PipelineIdle
    /\ channel = <<>>
    /\ \E n \in 0..MaxPosts : upcoming = [k \in 1..n |-> k]
    /\ last_message_id = NoneOpt
    /\ examined = <<>>
    /\ placing = PlacingIdle

NextListener == MessagePosted \/ MessageDeleted \/ poll_channel

SpecListener == InitListener /\ [][NextListener]_vars

\* poll_channel wakes from asyncio.sleep(3) again and again
FairListener == SpecListener /\ WF_vars(poll_channel)

InitOrder ==
    /\ trade = NoneV
    /\ pc = "idle"
    /\ file = AbsentFile
    /\ rows = load_existing_rows(file)
    /\ sheet = <<>>
    /\ posOpen = FALSE
    /\ deals = <<>>
    /\ liveOrders = {}
    /\ linkUp = TRUE
    /\ polls = 0
    /\ emitted = <<>>
    /\ closing_deal = NoDeal
    /\ calls = <<>>
    /\ raised = NoneV
    /\ seenClosed = FALSE
    /\ ev = EvIdle
    /\ resolver = ResolverIdle
    /\ parsed = ParserIdle
    /\ PipelineIdle
    /\ ListenerIdle
    /\ \E signal \in OrderSignals, offset \in Offsets : placing = PlacingInput(signal, offset)

NextOrder == place_pending_order

\* one order placement, for every signal, offset, quotes and broker answer
SpecOrder == InitOrder /\ [][NextOrder]_vars

\* the program, restarted at any moment
NextRestart == NextPipeline \/ Restart

SpecRestart == InitPipeline /\ [][NextRestart]_vars

(***************************************************************************)
(* Properties of the monitoring task.                                      *)
(***************************************************************************)
CallsMade(name) == {calls[i] : i \in {j \in DOMAIN calls : calls[j].call = name}}

CancelSent == {c.arg : c \in CallsMade("cancel_pending_order")}

BrokerCalls == {"get_positions", "get_history_deals", "get_orders", "cancel_pending_order"}

\* C1: the task appends at most one row for its handle, the rows list grows by
\* nothing else, and a task that has terminated has appended exactly one, after
\* any number of polls that found the position open.
C1_ExactlyOneRow ==
    /\ Len(emitted) <= 1
    /\ rows = <<NoneRow>> \o emitted
    /\ Terminated => Len(emitted) = 1

C1_Witness == pc = "done" /\ polls = MaxPolls /\ Len(emitted) = 1

\* C2: when the task has finished with a TP row, every sibling pending order of the
\* handle that the broker lists as live has received a cancellation attempt.
C2_LiveSiblingsCancelled ==
    (pc = "done" /\ Len(emitted) = 1 /\ emitted[1].result = "TP")
        => \A t \in Range(trade.pending_order_tickets) :
              t \in liveOrders => t \in CancelSent

\* C4: as long as every poll so far has found the position open, no row has been
\* appended, no cancellation sent, nothing raised, and the task is still in its
\* loop, polling or asleep.
C4_OpenMeansOnlyPolling ==
    ~seenClosed =>
        /\ emitted = <<>>
        /\ rows = <<NoneRow>>
        /\ sheet = <<>>
        /\ CancelSent = {}
        /\ raised = NoneV
        /\ pc \in {"poll", "sleep"}

C4_Witness == ~seenClosed /\ polls = MaxPolls /\ pc = "sleep"

\* C5: if from some time on the position is closed, its history holds a deal and the
\* broker's calls return, the task ends with its row recorded, having seen the
\* position closed first; an ended task takes no further step.
BrokerSettled == ~posOpen /\ deals /= <<>> /\ linkUp

C5_EventuallyResolved ==
    /\ <>[]BrokerSettled => <>(Terminated /\ Len(emitted) = 1)
    /\ [](Len(emitted) = 1 => seenClosed)
    /\ [][Terminated => UNCHANGED <<pc, rows, file, sheet, emitted, closing_deal,
                                    calls, raised, polls, seenClosed>>]_vars

C5_Witness == pc = "done" /\ seenClosed /\ closing_deal.entry = "OUT" /\ polls = MaxPolls

\* C6: an iteration in which get_positions returns no position and
\* get_history_deals returns no deal raises nothing and appends nothing: the task
\* sleeps and polls again.  A row is appended only in an iteration in which
\* get_history_deals returned deals, and it is built from the last of them.
LagIteration ==
    /\ Len(calls) >= 2
    /\ calls[1].call = "get_positions" /\ calls[1].got = "empty"
    /\ calls[2].call = "get_history_deals" /\ calls[2].got = "empty"

C7_TpWithinTolerance ==
    \A i \in DOMAIN emitted :
        LET price == closing_deal.price
            tp == trade.signal.tp
            near == price >= tp - 1 /\ price <= tp + 1
        IN /\ emitted[i].result \in {"TP", "SL"}
           /\ emitted[i].result = "TP" <=> near

C7_Witness ==
    /\ Len(emitted) = 1
    /\ closing_deal.price = trade.signal.tp + 1
    /\ emitted[1].result = "TP"

\* C8: no exception of a broker call ends the monitoring task.
C8_BrokerThrowCaught == ~(pc = "failed" /\ raised \in BrokerCalls)

\* an iteration of the task: the only step that leaves pc = "poll"
TaskIteration == pc = "poll" /\ pc' /= "poll"

\* the get_orders calls of the latest iteration that found a live order
LookupsFound == {c.arg : c \in {d \in CallsMade("get_orders") : d.got = "some"}}

\* C29: an iteration sends a cancellation only after recording a TP row, and only
\* for a sibling ticket of its handle whose lookup in that iteration found a live
\* order; an iteration that records an SL row, whose handle has no sibling ticket
\* or whose lookup found nothing sends none; an iteration that sends none leaves
\* the broker's orders as they were.
C29_CancelOnlyLiveSiblingAfterTp ==
    [][TaskIteration =>
          /\ \A t \in CancelSent' :
                /\ emitted' /= emitted
                /\ Last(emitted').result = "TP"
                /\ t \in Range(trade.pending_order_tickets)
                /\ t \in LookupsFound'
                /\ t \in liveOrders
          /\ (emitted' /= emitted /\ Last(emitted').result = "SL") => CancelSent' = {}
          /\ trade.pending_order_tickets = <<>> => CancelSent' = {}
          /\ LookupsFound' = {} => CancelSent' = {}
          /\ CancelSent' = {} => liveOrders' = liveOrders]_vars

\* an SL row of a handle whose sibling orders are all still live
C29_Witness ==
    /\ pc = "done"
    /\ Len(emitted) = 1 /\ emitted[1].result = "SL"
    /\ trade.pending_order_tickets /= <<>>
    /\ liveOrders = Range(trade.pending_order_tickets)
    /\ CancelSent = {}

\* C35: a row is recorded only in an iteration that starts with the position closed
\* at the broker, also when the position query returned no result, and the deal
\* the row is built from is a closing deal of the position, not its opening deal.
C35_RowOnlyAfterClose ==
    [][emitted' /= emitted => (~posOpen /\ closing_deal'.entry = "OUT")]_vars

(***************************************************************************)
(* Properties of the offline evaluation.                                   *)
(***************************************************************************)
\* evaluate_signal was called on a symbol the broker knows, and has ended
Evaluated == ev.out /= NoResult /\ ev.symbol_known

\* the entry decision evaluate_signal takes from the quote
EntryDecision == decide_entry(ev.tick, ev.signal.side, ev.signal.entry_low, ev.signal.entry_high)

\* C9: when the entry decision is MARKET, the position is active on the first
\* bar: a first bar that touches the take-profit only, or the stop-loss only,
\* ends the evaluation with that outcome at that bar's time.
C9_ImmediateActiveOnFirstBar ==
    (Evaluated /\ EntryDecision.type = "MARKET" /\ Len(ev.bars) >= 1) =>
        LET s == ev.signal
            bar == ev.bars[1]
            tp_hit == IF s.side = "BUY" THEN bar.high >= s.tp ELSE bar.low <= s.tp
            sl_hit == IF s.side = "BUY" THEN bar.low <= s.sl ELSE bar.high >= s.sl
        IN (tp_hit /= sl_hit) =>
               /\ ev.out.kind = "return"
               /\ ev.out.status = (IF tp_hit THEN "TP" ELSE "SL")
               /\ ev.out.hit_time = Some(bar.time)

\* C10: when the entry decision is pending and no bar crosses its entry price
\* (BUY: high >= price, SELL: low <= price), the evaluation returns status
\* None with the note "no entry", whatever the bars do to TP and SL.
C10_PendingNeverCrossedNoEntry ==
    (Evaluated /\ EntryDecision.type /= "MARKET" /\ Len(ev.bars) >= 1) =>
        LET s == ev.signal
            price == EntryDecision.price.val
            crossed(bar) == IF s.side = "BUY" THEN bar.high >= price ELSE bar.low <= price
        IN (\A i \in DOMAIN ev.bars : ~crossed(ev.bars[i])) =>
               /\ ev.out.kind = "return"
               /\ ev.out.status = NoneV
               /\ ev.out.notes = "no entry"

\* the take-profit level is touched in the bar (BUY: high >= tp, SELL: low <= tp)
TpTouched(s, bar) == IF s.side = "BUY" THEN bar.high >= s.tp ELSE bar.low <= s.tp

\* the stop-loss level is touched in the bar (BUY: low <= sl, SELL: high >= sl)
SlTouched(s, bar) == IF s.side = "BUY" THEN bar.low <= s.sl ELSE bar.high >= s.sl

\* the least index of a non-empty set of indices
FirstOf(S) == CHOOSE i \in S : \A j \in S : i <= j

\* the bars that cross the pending entry price (BUY: high >= price, SELL: low <= price)
Crossing ==
    IF EntryDecision.type = "MARKET" THEN {}
    ELSE { i \in DOMAIN ev.bars :
             IF ev.signal.side = "BUY" THEN ev.bars[i].high >= EntryDecision.price.val
             ELSE ev.bars[i].low <= EntryDecision.price.val }

\* the position becomes active within the bars: at once, or at a crossing bar
Activates == EntryDecision.type = "MARKET" \/ Crossing /= {}

\* the bar the position is active from: the first, or the first crossing bar
ActiveFrom == IF EntryDecision.type = "MARKET" THEN 1 ELSE FirstOf(Crossing)

\* the bars, from activation on, that touch the take-profit or the stop-loss
Touching ==
    { i \in DOMAIN ev.bars :
        i >= ActiveFrom /\ (TpTouched(ev.signal, ev.bars[i]) \/ SlTouched(ev.signal, ev.bars[i])) }

\* the first touching bar lies where the position is active in every reading:
\* any bar of a MARKET entry, a bar after the activating one of a pending entry
FirstTouchWhileActive ==
    /\ Activates
    /\ Touching /= {}
    /\ EntryDecision.type /= "MARKET" => FirstOf(Touching) > ActiveFrom

\* C11: for a pending entry, the bar that crosses the entry price is itself
\* tested for TP and SL: when it touches exactly one of them, the evaluation
\* ends with that outcome at the time of that activating bar.
C11_ActivatingBarEvaluated ==
    (Evaluated /\ EntryDecision.type /= "MARKET" /\ Crossing /= {}) =>
        LET bar == ev.bars[ActiveFrom]
            tp_hit == TpTouched(ev.signal, bar)
            sl_hit == SlTouched(ev.signal, bar)
        IN (tp_hit /= sl_hit) =>
               /\ ev.out.kind = "return"
               /\ ev.out.status = (IF tp_hit THEN "TP" ELSE "SL")
               /\ ev.out.hit_time = Some(bar.time)

\* C12: with the position active, the evaluation ends at the earliest bar that
\* touches TP or SL: when that bar touches exactly one of them, the outcome has
\* that status and that bar's time, whatever the later bars are.
C12_EarliestTouchDecides ==
    (Evaluated /\ FirstTouchWhileActive) =>
        LET bar == ev.bars[FirstOf(Touching)]
            tp_hit == TpTouched(ev.signal, bar)
            sl_hit == SlTouched(ev.signal, bar)
        IN (tp_hit /= sl_hit) =>
               /\ ev.out.kind = "return"
               /\ ev.out.status = (IF tp_hit THEN "TP" ELSE "SL")
               /\ ev.out.hit_time = Some(bar.time)

\* the first touching bar touches both levels while the position is active
TieBarReached ==
    /\ FirstTouchWhileActive
    /\ TpTouched(ev.signal, ev.bars[FirstOf(Touching)])
    /\ SlTouched(ev.signal, ev.bars[FirstOf(Touching)])

\* the side-relevant price of a tick: ask for BUY, bid for SELL
TickPrice(s, tick) == IF s.side = "BUY" THEN tick.ask ELSE tick.bid

\* the tick's price satisfies the stop-loss condition
TickConfirmsSl(s, tick) ==
    IF s.side = "BUY" THEN TickPrice(s, tick) <= s.sl ELSE TickPrice(s, tick) >= s.sl

\* the tick's price satisfies the take-profit condition
TickConfirmsTp(s, tick) ==
    IF s.side = "BUY" THEN TickPrice(s, tick) >= s.tp ELSE TickPrice(s, tick) <= s.tp

\* the ticks of the tied minute that satisfy either condition
Deciding ==
    { k \in DOMAIN ev.ticks :
        TickConfirmsSl(ev.signal, ev.ticks[k]) \/ TickConfirmsTp(ev.signal, ev.ticks[k]) }

\* C13: when a bar touches both TP and SL, the first tick in time order that
\* satisfies the SL or the TP condition (SL tested first) decides: the outcome
\* is SL if that tick confirms SL, even if a later tick confirms TP, and TP
\* otherwise, at that tick's time.
C13_FirstDecidingTickWins ==
    (Evaluated /\ TieBarReached /\ Deciding /= {}) =>
        LET tick == ev.ticks[FirstOf(Deciding)]
        IN /\ ev.out.kind = "return"
           /\ ev.out.status = (IF TickConfirmsSl(ev.signal, tick) THEN "SL" ELSE "TP")
           /\ ev.out.hit_time = Some(tick.time \div MsPerSecond)

\* C14: when a bar touches both TP and SL and no tick of its minute satisfies
\* either condition (there may be no tick at all), the outcome is SL with the
\* conservative-fallback note at the bar's time.
C14_TieFallbackIsSl ==
    (Evaluated /\ TieBarReached /\ Deciding = {}) =>
        /\ ev.out.kind = "return"
        /\ ev.out.status = "SL"
        /\ ev.out.notes = "tie -> conservative SL"
        /\ ev.out.hit_time = Some(ev.bars[FirstOf(Touching)].time)

\* C15: whatever the quote, the bars and the ticks are, evaluate_signal returns
\* an outcome with status TP, SL or None and raises nothing.
C15_NeverRaises ==
    Evaluated => ev.out.kind = "return" /\ ev.out.status \in {"TP", "SL", NoneV}

\* C16: a second run of evaluate_signal on the same signal, quote, bars and
\* ticks returns an outcome, and it is the outcome of the first run.
C16_SameInputsSameOutcome ==
    (ev.again /= NoResult /\ ev.symbol_known) =>
        /\ ev.out.kind = "return"
        /\ ev.again.kind = "return"
        /\ ev.again = ev.out

\* C17: with no bar at all, evaluate_signal returns status None, no hit time
\* and the note "no data".
C17_EmptyBarsNoData ==
    (Evaluated /\ ev.bars = <<>>) =>
        /\ ev.out.kind = "return"
        /\ ev.out.status = NoneV
        /\ ev.out.hit_time = NoneOpt
        /\ ev.out.notes = "no data"

\* C18: when the position becomes active and the bars run out with no bar
\* touching TP or SL, evaluate_signal returns status None, no hit time and
\* the note "timeout".
C18_ExhaustedIsTimeout ==
    (Evaluated /\ Len(ev.bars) >= 1 /\ Activates
       /\ \A i \in DOMAIN ev.bars :
              ~TpTouched(ev.signal, ev.bars[i]) /\ ~SlTouched(ev.signal, ev.bars[i])) =>
        /\ ev.out.kind = "return"
        /\ ev.out.status = NoneV
        /\ ev.out.hit_time = NoneOpt
        /\ ev.out.notes = "timeout"

(***************************************************************************)
(* Properties of the entry decision.                                       *)
(***************************************************************************)
\* C19: with a quote, decide_entry gives for BUY a stop at entry_low when
\* entry_low > ask, a limit at entry_high when entry_high < ask, and MARKET at
\* the ask otherwise; for SELL a stop at entry_high when entry_high < bid, a
\* limit at entry_low when entry_low > bid, and MARKET at the bid otherwise.
\* A band edge equal to the quote gives MARKET.
C19_OfflineEntryTable ==
    (resolver.offline /= NoResult /\ ~resolver.tick.is_none) =>
        LET ask == resolver.tick.val.ask
            bid == resolver.tick.val.bid
            lo == resolver.entry_low
            hi == resolver.entry_high
            d == resolver.offline
        IN IF resolver.side = "BUY"
           THEN /\ lo > ask => d = Entry("BUY_STOP", Some(lo))
                /\ hi < ask => d = Entry("BUY_LIMIT", Some(hi))
                /\ (lo <= ask /\ ask <= hi) => d = Entry("MARKET", Some(ask))
           ELSE /\ hi < bid => d = Entry("SELL_STOP", Some(hi))
                /\ lo > bid => d = Entry("SELL_LIMIT", Some(lo))
                /\ (lo <= bid /\ bid <= hi) => d = Entry("MARKET", Some(bid))

C19_Witness ==
    /\ resolver.offline /= NoResult
    /\ ~resolver.tick.is_none
    /\ resolver.side = "SELL"
    /\ resolver.entry_low < resolver.entry_high
    /\ resolver.entry_low = resolver.tick.val.bid
    /\ resolver.offline = Entry("MARKET", Some(resolver.tick.val.bid))

\* C20: without a quote, both decisions are immediate with no price, for BUY
\* and for SELL: decide_entry returns MARKET and None, _decide_entry returns
\* a market order type and None.
C20_NoQuoteIsImmediate ==
    resolver.tick.is_none =>
        /\ resolver.offline /= NoResult => resolver.offline = Entry("MARKET", NoneOpt)
        /\ resolver.live /= NoResult =>
               is_market_order_type(resolver.live.type) /\ resolver.live.price = NoneOpt

C20_Witness ==
    /\ resolver.tick.is_none
    /\ resolver.side = "SELL"
    /\ resolver.offline = Entry("MARKET", NoneOpt)
    /\ resolver.live = Entry("ORDER_TYPE_BUY", NoneOpt)

\* C30: with a quote, _decide_entry gives for BUY a limit at entry_high when
\* entry_high < ask - 1 and otherwise the market type BUY at the ask; for SELL a
\* limit at entry_low when entry_low > bid + 1 and otherwise the market type SELL
\* at the bid.  It never gives a stop type, with or without a quote.
C30_LiveEntryTable ==
    resolver.live /= NoResult =>
        /\ resolver.live.type \notin {"ORDER_TYPE_BUY_STOP", "ORDER_TYPE_SELL_STOP"}
        /\ ~resolver.tick.is_none =>
               LET ask == resolver.tick.val.ask
                   bid == resolver.tick.val.bid
                   lo == resolver.entry_low
                   hi == resolver.entry_high
                   d == resolver.live
               IN IF resolver.side = "BUY"
                  THEN IF hi < ask - 1
                       THEN d = Entry("ORDER_TYPE_BUY_LIMIT", Some(hi))
                       ELSE d = Entry("ORDER_TYPE_BUY", Some(ask))
                  ELSE IF lo > bid + 1
                       THEN d = Entry("ORDER_TYPE_SELL_LIMIT", Some(lo))
                       ELSE d = Entry("ORDER_TYPE_SELL", Some(bid))

\* a band one unit below the ask: inside the tolerance, so the entry is immediate
C30_Witness ==
    /\ resolver.live /= NoResult
    /\ ~resolver.tick.is_none
    /\ resolver.side = "BUY"
    /\ resolver.entry_high = resolver.tick.val.ask - 1
    /\ resolver.live = Entry("ORDER_TYPE_BUY", Some(resolver.tick.val.ask))

(***************************************************************************)
(* Properties of the parser.                                               *)
(***************************************************************************)
\* the ENTRATA line of the text gives its larger number first
BandInverted(m) ==
    /\ ~m.entrata.is_none
    /\ m.entrata.val[1].digits /\ m.entrata.val[2].digits
    /\ m.entrata.val[1].val > m.entrata.val[2].val

\* some take-profit of the text is on the wrong side of its stop-loss
TargetsContradictSide(m) ==
    /\ ~m.header.is_none
    /\ ~m.stop_loss.is_none /\ m.stop_loss.val.digits
    /\ \E i \in DOMAIN m.take_profit :
          /\ m.take_profit[i].digits
          /\ IF m.header.val = "BUY"
             THEN m.take_profit[i].val <= m.stop_loss.val.val
             ELSE m.take_profit[i].val >= m.stop_loss.val.val

\* C21: a text whose entry band is inverted, or whose take-profit and stop-loss
\* contradict its side, yields no signal: parse returns None or raises.
C21_MalformedRejected ==
    (parsed.out /= NoResult /\ ~parsed.text.is_none
       /\ (BandInverted(parsed.text.val) \/ TargetsContradictSide(parsed.text.val)))
        => (parsed.out.kind = "raise" \/ parsed.out = Returned(NoneOpt))

(***************************************************************************)
(* Properties of the event loop.                                           *)
(***************************************************************************)
\* execute_trade returned a TradeHandle for this call
GaveHandle(h) == h.result.kind = "return" /\ ~h.result.val.is_none

\* the handles execute_trade has returned so far, in the order of the calls
Produced == SelectSeq(handled, GaveHandle)

\* C22: the signals execute_trade has been called on are, in order, the first of
\* the signals put on the signal queue, the others still wait in their order of
\* arrival, every step of the loop runs at most one execute_trade, and the handles
\* that execute_trade returned are the last entries put on the monitor queue, in
\* the order of their calls.
C22_SignalsHandledInOrder ==
    /\ [](/\ Len(handled) <= Len(arrived)
          /\ \A i \in DOMAIN handled : handled[i].signal = arrived[i]
          /\ signal_queue = SubSeq(arrived, Len(handled) + 1, Len(arrived))
          /\ Len(Produced) <= Len(dispatched)
          /\ \A i \in DOMAIN Produced :
                dispatched[Len(dispatched) - Len(Produced) + i] = Produced[i].result.val.val)
    /\ [][Len(handled') <= Len(handled) + 1]_vars

\* both signals of one message were queued together and handled TP1 first
C22_Witness ==
    /\ Len(arrived) >= 2
    /\ Len(handled) = 2
    /\ handled[1].signal.tp_index = 1 /\ handled[2].signal.tp_index = 2
    /\ handled[1].signal.message_id = handled[2].signal.message_id

\* the handles the monitoring tasks were created for, oldest task first
Monitored == [i \in DOMAIN tasks |-> tasks[i].trade]

\* C23: the handles put on the monitor queue are, in order, those that have a
\* monitoring task followed by those still on the queue, so none is dropped and
\* none has two tasks; and again and again the queue is empty, every handle put
\* on it having got its task.
C23_EveryHandleGetsOneTask ==
    /\ [](Monitored \o monitor_queue = dispatched)
    /\ []<>(monitor_queue = <<>> /\ Len(tasks) = Len(dispatched))

C23_Witness ==
    /\ Len(dispatched) = MaxHandles
    /\ monitor_queue = <<>>
    /\ Len(tasks) = MaxHandles
    /\ \A i, j \in DOMAIN tasks : tasks[i].trade = tasks[j].trade => i = j

\* the position of the k-th handle is closed at the broker
PositionClosed(k) == k \in DOMAIN dispatched /\ ~book[dispatched[k].ticket].open

\* the task of the k-th handle has ended and the row of its signal is recorded
TradeResolved(k) ==
    /\ k \in DOMAIN tasks
    /\ tasks[k].pc = "done"
    /\ \E j \in DOMAIN emitted : emitted[j].message_id = dispatched[k].signal.message_id

\* C25: again and again every trade whose position has closed is resolved with its
\* row recorded, whatever happens to the positions of the other trades, and every
\* signal put on the signal queue has been handled by the trader loop.
C25_TradesResolveIndependently ==
    /\ []<>(\A k \in DOMAIN dispatched : PositionClosed(k) => TradeResolved(k))
    /\ []<>(Len(handled) = Len(arrived))

\* the trade dispatched second is resolved while the first position is still open
\* and its task still polls, and the trader loop has handled a signal meanwhile
C25_Witness ==
    /\ Len(tasks) >= 2
    /\ TradeResolved(2)
    /\ ~PositionClosed(1) /\ tasks[1].pc = "sleep"
    /\ Len(handled) >= 1

\* C39: the rows a restarted TradeMonitor loads are, as JSON documents, the rows
\* that were in memory and on disk before the restart, however many they are.
C39_RowsSurviveRestart ==
    [][Restart => save_results_to_json(rows').lines = save_results_to_json(rows).lines]_vars

(***************************************************************************)
(* Properties of the order placement.                                      *)
(***************************************************************************)
\* what _decide_entry returned in the placement pl
Decided(pl) ==
    live_decide_entry(pl.tick_entry, pl.signal.val.side,
                      ShiftedLow(pl.signal.val, pl.offset), ShiftedHigh(pl.signal.val, pl.offset))

\* what _ensure_valid_pending_price returned in the placement pl, whose entry
\* decision was a pending type
Revalidated(pl) ==
    ensure_valid_pending_price(pl.tick_valid, pl.signal.val.side, Decided(pl).type,
                               Decided(pl).price.val)

\* the placement pl built a request after revalidating a pending price
RequestRevalidated(pl) ==
    /\ pl.request.kind = "return"
    /\ ~is_market_order_type(Decided(pl).type)

\* C31: a request built after revalidation carries the order type and the price
\* the revalidation returned, with action DEAL exactly for a market type; after a
\* downgrade its price is the current ask (BUY) or bid (SELL).
C31_RequestCarriesRevalidation ==
    RequestRevalidated(placing) =>
        LET request == placing.request.val
            final == Revalidated(placing).val
        IN /\ request.type = final.type
           /\ request.price = final.price
           /\ (request.action = "TRADE_ACTION_DEAL") = is_market_order_type(final.type)

\* the order types of a side
SideTypes(side) ==
    IF side = "BUY" THEN {"ORDER_TYPE_BUY", "ORDER_TYPE_BUY_LIMIT"}
    ELSE {"ORDER_TYPE_SELL", "ORDER_TYPE_SELL_LIMIT"}

\* C36: every request sent to the broker has an order type of the signal's side,
\* whatever the three quotes were.
C36_SentTypeOnSignalSide ==
    \A i \in DOMAIN placing.sent : placing.sent[i].type \in SideTypes(placing.signal.val.side)

(***************************************************************************)
(* Properties of the listener.                                             *)
(***************************************************************************)
\* C37: no Signal is put on the signal queue twice: the signals that arrived
\* differ pairwise in message id or tp_index, whatever was posted and deleted.
C37_MessageEnqueuedOnce ==
    \A i, j \in DOMAIN arrived :
        (arrived[i].message_id = arrived[j].message_id
            /\ arrived[i].tp_index = arrived[j].tp_index) => i = j

\* the signals one step of the listener has put on the queue
Added == SubSeq(arrived', Len(arrived) + 1, Len(arrived'))

\* C38: again and again every message in the channel has been examined, and the
\* signals a poll puts on the queue are those of the message it examined, TP1
\* first.
C38_EveryMessageExamined ==
    /\ []<>(Range(channel) \subseteq Range(examined))
    /\ [][\A i \in DOMAIN Added :
              Added[i].tp_index = i /\ Added[i].message_id = Last(examined')]_vars

(***************************************************************************)
(* Properties of execute_trade in the trader loop.                         *)
(***************************************************************************)
\* the latest step was a trader_loop iteration
Executed == handled' /= handled

\* C32: an execute_trade call that finds no market price returns None and sends
\* no order, and the iteration puts nothing on the monitor queue.
C32_NoPriceNoOrder ==
    /\ [](~executed.signal.is_none /\ ~executed.priced =>
             executed.result = Returned(NoneOpt) /\ executed.orders = <<>>)
    /\ [][Executed /\ ~executed'.priced =>
             monitor_queue' = monitor_queue /\ dispatched' = dispatched]_vars

\* a call found no market price
C32_Witness == ~executed.signal.is_none /\ ~executed.priced /\ monitor_queue = <<>>

\* C33: a call sends at most two orders, the main order first; the instant order
\* only after a pending decision and a main order that succeeded; when the main
\* order failed or raised, it sends no order after it and returns no handle.
C33_OrdersOfOneCall ==
    LET orders == executed.orders
    IN /\ Len(orders) <= 2
       /\ orders /= <<>> => orders[1] = "main"
       /\ \A i \in DOMAIN orders :
             orders[i] = "instant" =>
                 i = 2 /\ executed.decision = "pending" /\ executed.main = "succeeded"
       /\ executed.main \in {"failed", "raised"} =>
             /\ Len(orders) <= 1
             /\ executed.result = Returned(NoneOpt)

\* a call with a pending decision whose main order raised
C33_Witness ==
    /\ executed.decision = "pending"
    /\ executed.main = "raised"
    /\ executed.result = Returned(NoneOpt)

\* C34: an iteration whose execute_trade raised puts no handle on the monitor
\* queue, and again and again every signal that arrived has been handled.
C34_LoopSurvivesException ==
    /\ [][Executed /\ executed'.result.kind = "raise" =>
             monitor_queue' = monitor_queue /\ dispatched' = dispatched]_vars
    /\ []<>(signal_queue = <<>> /\ Len(handled) = Len(arrived))

\* execute_trade raised for the first signal of a message and the second was
\* handled after it
C34_Witness ==
    /\ Len(handled) = 2
    /\ handled[1].result.kind = "raise"
    /\ handled[2].signal.message_id = handled[1].signal.message_id

====
